---- MODULE Spec2Model ----
(***************************************************************************)
(* Scalar multiplication on a short-Weierstrass curve over Z/m in affine   *)
(* coordinates (src/main.rs): mod_inv, elliptic_add, scalar_mult,          *)
(* is_on_curve and the driver main.                                        *)
(***************************************************************************)
EXTENDS Integers

\* ---------------------------------------------------------------- bounds
\* Small moduli 1..MaxM are enumerated exhaustively (all coefficients, all
\* points with coordinates in [0, m)).
MaxM == 7
\* Scalars 0..MaxN.
MaxN == 12
\* mod_inv is called with a in 0..MaxInvA and m in 1..MaxInvM.
MaxInvA == 12
MaxInvM == 9

\* ------------------------------------------- the reference run of main
RefX == 205
RefY == 130
RefN == 2
RefA == 4
RefB == 4
RefM == 313

\* --------------------------------------------------- integer arithmetic
\* i64 `/` and `%` truncate toward zero; rem_euclid is the non-negative
\* remainder.  No value of the model leaves the i64 range.
Abs(x) == IF x < 0 THEN -x ELSE x

TruncDiv(x, y) ==
    IF (x < 0) = (y < 0) THEN Abs(x) \div Abs(y) ELSE -(Abs(x) \div Abs(y))

TruncRem(x, y) == x - y * TruncDiv(x, y)

rem_euclid(x, m) == x % m

\* ------------------------------------------------------------- outcomes
\* A call either returns a value or panics (mod_inv's panic! unwinds
\* through every caller).
Ok(v) == [panic |-> FALSE, val |-> v]
Panic == [panic |-> TRUE]

\* ---------------------------------------------------------------- Point
Point(px, py) == [x |-> px, y |-> py, infinity |-> FALSE]

at_infinity == [x |-> 0, y |-> 0, infinity |-> TRUE]

is_at_infinity(p) == p.infinity

\* -------------------------------------------------------------- mod_inv
\* The while loop: one iteration per unfolding, on (t, new_t, r, new_r).
RECURSIVE ModInvLoop(_, _, _, _)
ModInvLoop(t, new_t, r, new_r) ==
    IF new_r /= 0
    THEN LET quotient == TruncDiv(r, new_r)
         IN  ModInvLoop(new_t, t - quotient * new_t, new_r, r - quotient * new_r)
    ELSE [t |-> t, r |-> r]

\* mod_inv without `if t < 0 { t += m; }`.
mod_inv_NoNormalize(a, m) ==
    LET fin == ModInvLoop(0, 1, m, TruncRem(a, m))
    IN  IF fin.r > 1 THEN Panic ELSE Ok(fin.t)

\* mod_inv without the `if r > 1 { panic!(..) }` check.
mod_inv_NoCheck(a, m) ==
    LET fin == ModInvLoop(0, 1, m, TruncRem(a, m))
    IN  Ok(IF fin.t < 0 THEN fin.t + m ELSE fin.t)

mod_inv(a, m) ==
    LET fin == ModInvLoop(0, 1, m, TruncRem(a, m))
    IN  IF fin.r > 1
        THEN Panic
        ELSE Ok(IF fin.t < 0 THEN fin.t + m ELSE fin.t)

\* --------------------------------------------------------- elliptic_add
\* elliptic_add's third test without `p.y != q.y`.
AddBranch_NoReflect(p, q) ==
    IF is_at_infinity(p) THEN "p_infinity"
    ELSE IF is_at_infinity(q) THEN "q_infinity"
    ELSE IF p.x = q.x /\ p.y = 0 THEN "inverse"
    ELSE IF p.x = q.x /\ p.y = q.y THEN "doubling"
    ELSE "addition"

\* elliptic_add's third test without `|| p.y == 0`.
AddBranch_NoZeroY(p, q) ==
    IF is_at_infinity(p) THEN "p_infinity"
    ELSE IF is_at_infinity(q) THEN "q_infinity"
    ELSE IF p.x = q.x /\ p.y /= q.y THEN "inverse"
    ELSE IF p.x = q.x /\ p.y = q.y THEN "doubling"
    ELSE "addition"

\* Which return of elliptic_add a call takes.
AddBranch(p, q) ==
    IF is_at_infinity(p) THEN "p_infinity"
    ELSE IF is_at_infinity(q) THEN "q_infinity"
    ELSE IF p.x = q.x /\ (p.y /= q.y \/ p.y = 0) THEN "inverse"
    ELSE IF p.x = q.x /\ p.y = q.y THEN "doubling"
    ELSE "addition"

\* The doubling slope with the numerator 3*x1*x1, the coefficient a left out.
Lambda_NoA(p, q, a, m) ==
    LET x1 == p.x
        y1 == p.y
        x2 == q.x
        y2 == q.y
    IN  IF x1 = x2 /\ y1 = y2
        THEN LET num   == rem_euclid(3 * x1 * x1, m)
                 denom == mod_inv(2 * y1, m)
             IN  IF denom.panic THEN Panic
                 ELSE Ok(rem_euclid(num * denom.val, m))
        ELSE LET num   == rem_euclid(y2 - y1, m)
                 denom == mod_inv(rem_euclid(x2 - x1, m), m)
             IN  IF denom.panic THEN Panic
                 ELSE Ok(rem_euclid(num * denom.val, m))

\* The doubling slope with the denominator mod_inv(y1, m) for mod_inv(2 * y1, m).
Lambda_DenomY(p, q, a, m) ==
    LET x1 == p.x
        y1 == p.y
        x2 == q.x
        y2 == q.y
    IN  IF x1 = x2 /\ y1 = y2
        THEN LET num   == rem_euclid(3 * x1 * x1 + a, m)
                 denom == mod_inv(y1, m)
             IN  IF denom.panic THEN Panic
                 ELSE Ok(rem_euclid(num * denom.val, m))
        ELSE LET num   == rem_euclid(y2 - y1, m)
                 denom == mod_inv(rem_euclid(x2 - x1, m), m)
             IN  IF denom.panic THEN Panic
                 ELSE Ok(rem_euclid(num * denom.val, m))

\* The slope lambda, or the panic of the inverse it needs.
Lambda(p, q, a, m) ==
    LET x1 == p.x
        y1 == p.y
        x2 == q.x
        y2 == q.y
    IN  IF x1 = x2 /\ y1 = y2
        THEN LET num   == rem_euclid(3 * x1 * x1 + a, m)
                 denom == mod_inv(2 * y1, m)
             IN  IF denom.panic THEN Panic
                 ELSE Ok(rem_euclid(num * denom.val, m))
        ELSE LET num   == rem_euclid(y2 - y1, m)
                 denom == mod_inv(rem_euclid(x2 - x1, m), m)
             IN  IF denom.panic THEN Panic
                 ELSE Ok(rem_euclid(num * denom.val, m))

\* elliptic_add with y3 = lambda * (x1 - x3) - y2.
elliptic_add_YQ(p, q, a, m) ==
    LET taken == AddBranch(p, q)
    IN  IF taken = "p_infinity" THEN Ok(q)
        ELSE IF taken = "q_infinity" THEN Ok(p)
        ELSE IF taken = "inverse" THEN Ok(at_infinity)
        ELSE LET lambda == Lambda(p, q, a, m)
             IN  IF lambda.panic THEN Panic
                 ELSE LET x3 == rem_euclid(lambda.val * lambda.val - p.x - q.x, m)
                          y3 == rem_euclid(lambda.val * (p.x - x3) - q.y, m)
                      IN  Ok([x |-> IF x3 < 0 THEN x3 + m ELSE x3,
                              y |-> IF y3 < 0 THEN y3 + m ELSE y3,
                              infinity |-> FALSE])

\* elliptic_add returning p.clone() when p is at infinity.
elliptic_add_ReturnsP(p, q, a, m) ==
    LET taken == AddBranch(p, q)
    IN  IF taken = "p_infinity" THEN Ok(p)
        ELSE IF taken = "q_infinity" THEN Ok(p)
        ELSE IF taken = "inverse" THEN Ok(at_infinity)
        ELSE LET lambda == Lambda(p, q, a, m)
             IN  IF lambda.panic THEN Panic
                 ELSE LET x3 == rem_euclid(lambda.val * lambda.val - p.x - q.x, m)
                          y3 == rem_euclid(lambda.val * (p.x - x3) - p.y, m)
                      IN  Ok([x |-> IF x3 < 0 THEN x3 + m ELSE x3,
                              y |-> IF y3 < 0 THEN y3 + m ELSE y3,
                              infinity |-> FALSE])

elliptic_add(p, q, a, m) ==
    LET taken == AddBranch(p, q)
    IN  IF taken = "p_infinity" THEN Ok(q)
        ELSE IF taken = "q_infinity" THEN Ok(p)
        ELSE IF taken = "inverse" THEN Ok(at_infinity)
        ELSE LET lambda == Lambda(p, q, a, m)
             IN  IF lambda.panic THEN Panic
                 ELSE LET x3 == rem_euclid(lambda.val * lambda.val - p.x - q.x, m)
                          y3 == rem_euclid(lambda.val * (p.x - x3) - p.y, m)
                      IN  Ok([x |-> IF x3 < 0 THEN x3 + m ELSE x3,
                              y |-> IF y3 < 0 THEN y3 + m ELSE y3,
                              infinity |-> FALSE])

\* ---------------------------------------------------------- is_on_curve
is_on_curve(p, a, b, m) ==
    IF is_at_infinity(p) THEN TRUE
    ELSE LET left_side  == rem_euclid(p.y * p.y, m)
             right_side == rem_euclid((p.x * p.x * p.x) + a * p.x + b, m)
         IN  left_side = right_side

\* ---------------------------------------------------------------- state
VARIABLES
    a, b, m,        \* the curve parameters the caller supplies (main: a, b, m)
    call,           \* the function the caller invoked, "none" before the call
    inv_a, inv_m,   \* mod_inv's arguments
    p, q,           \* the point arguments (scalar_mult and is_on_curve: p)
    n0,             \* scalar_mult's argument n
    inv_ret,        \* what mod_inv returned, or Panic
    ret,            \* the point elliptic_add or scalar_mult returned, or Panic
    on_curve,       \* what is_on_curve returned
    branch,         \* the return of elliptic_add the call took
    n, result, addend,   \* scalar_mult's locals
    pc,             \* scalar_mult: "loop", "done", "panic"; main: "reported"
    iters,          \* loop iterations completed
    folds,          \* result = elliptic_add(result, addend) executed
    doublings,      \* addend = elliptic_add(addend, addend) executed
    printed         \* what main printed

vars == <<a, b, m, call, inv_a, inv_m, p, q, n0, inv_ret, ret, on_curve, branch,
          n, result, addend, pc, iters, folds, doublings, printed>>

\* ------------------------------------------------------- caller's inputs
RefP == Point(RefX, RefY)

\* All affine points with coordinates in [0, mm), and the identity.
AffinePoints(mm) == {Point(px, py) : px \in 0..(mm - 1), py \in 0..(mm - 1)}

\* Point arguments: every point for an enumerated modulus; for main's
\* modulus the base point, its reflection, a point of its x with y = 0 and
\* the identity.
PointArgs(mm) ==
    IF mm <= MaxM
    THEN AffinePoints(mm) \cup {at_infinity}
    ELSE {RefP, Point(RefX, RefM - RefY), Point(RefX, 0), at_infinity}

Params ==
    {[a |-> ca, b |-> cb, m |-> cm] :
        ca \in 0..(MaxM - 1), cb \in 0..(MaxM - 1), cm \in 1..MaxM}

Init ==
    /\ \E c \in Params \cup {[a |-> RefA, b |-> RefB, m |-> RefM]} :
          /\ c.a < c.m /\ c.b < c.m
          /\ a = c.a /\ b = c.b /\ m = c.m
    /\ call = "none"
    /\ inv_a = 0 /\ inv_m = 1
    /\ p = at_infinity /\ q = at_infinity
    /\ n0 = 0
    /\ inv_ret = Ok(0)
    /\ ret = Ok(at_infinity)
    /\ on_curve = FALSE
    /\ branch = "none"
    /\ n = 0 /\ result = at_infinity /\ addend = at_infinity
    /\ pc = "idle"
    /\ iters = 0 /\ folds = 0 /\ doublings = 0
    /\ printed = [infinity |-> TRUE]

\* ---------------------------------------------------------------- calls
\* mod_inv(ia, im)
CallModInv ==
    /\ call = "none"
    /\ \E ia \in 0..MaxInvA, im \in 1..MaxInvM :
          /\ inv_a' = ia /\ inv_m' = im
          /\ inv_ret' = mod_inv(ia, im)
    /\ call' = "mod_inv"
    /\ UNCHANGED <<a, b, m, p, q, n0, ret, on_curve, branch, n, result,
                   addend, pc, iters, folds, doublings, printed>>

\* elliptic_add(&pp, &qq, a, m)
CallAdd ==
    /\ call = "none"
    /\ \E pp \in PointArgs(m), qq \in PointArgs(m) :
          /\ p' = pp /\ q' = qq
          /\ branch' = AddBranch(pp, qq)
          /\ ret' = elliptic_add(pp, qq, a, m)
    /\ call' = "elliptic_add"
    /\ UNCHANGED <<a, b, m, inv_a, inv_m, n0, inv_ret, on_curve, n, result,
                   addend, pc, iters, folds, doublings, printed>>

\* is_on_curve(&pp, a, b, m)
CallIsOnCurve ==
    /\ call = "none"
    /\ \E pp \in PointArgs(m) :
          /\ p' = pp
          /\ on_curve' = is_on_curve(pp, a, b, m)
    /\ call' = "is_on_curve"
    /\ UNCHANGED <<a, b, m, inv_a, inv_m, q, n0, inv_ret, ret, branch, n,
                   result, addend, pc, iters, folds, doublings, printed>>

\* scalar_mult(nn, &pp, a, m): entry, the three let bindings.
CallScalarMult ==
    /\ call = "none"
    /\ \E pp \in PointArgs(m), nn \in 0..MaxN :
          /\ p' = pp /\ n0' = nn
          /\ result' = at_infinity
          /\ addend' = pp
          /\ n' = nn
    /\ call' = "scalar_mult"
    /\ pc' = "loop"
    /\ UNCHANGED <<a, b, m, inv_a, inv_m, q, inv_ret, ret, on_curve, branch,
                   iters, folds, doublings, printed>>

\* `n & 1 == 1` and `n >>= 1`, for n > 0.
\* The bit test inverted, and a decrement for the shift.
LowBitSet_Inverted(nn) == nn % 2 = 0

ShiftRight_Dec(nn) == nn - 1

LowBitSet(nn) == nn % 2 = 1

ShiftRight(nn) == nn \div 2

\* One iteration of `while n > 0`.  A panic inside either elliptic_add
\* unwinds scalar_mult at that statement.
LoopStep ==
    /\ call = "scalar_mult" /\ pc = "loop"
    /\ n > 0
    /\ LET bit   == LowBitSet(n)
           fold  == IF bit THEN elliptic_add(result, addend, a, m) ELSE Ok(result)
           dbl   == elliptic_add(addend, addend, a, m)
       IN  IF fold.panic
           THEN /\ pc' = "panic" /\ ret' = Panic
                /\ UNCHANGED <<n, result, addend, iters, folds, doublings>>
           ELSE /\ result' = fold.val
                /\ folds' = IF bit THEN folds + 1 ELSE folds
                /\ IF dbl.panic
                   THEN /\ pc' = "panic" /\ ret' = Panic
                        /\ UNCHANGED <<n, addend, iters, doublings>>
                   ELSE /\ addend' = dbl.val
                        /\ doublings' = doublings + 1
                        /\ n' = ShiftRight(n)
                        /\ iters' = iters + 1
                        /\ UNCHANGED <<pc, ret>>
    /\ UNCHANGED <<a, b, m, call, inv_a, inv_m, p, q, n0, inv_ret, on_curve,
                   branch, printed>>

\* The loop condition fails: scalar_mult returns result.
LoopExit ==
    /\ call = "scalar_mult" /\ pc = "loop"
    /\ ~(n > 0)
    /\ pc' = "done"
    /\ ret' = Ok(result)
    /\ UNCHANGED <<a, b, m, call, inv_a, inv_m, p, q, n0, inv_ret, on_curve,
                   branch, n, result, addend, iters, folds, doublings, printed>>

\* main after scalar_mult returned np: the report.
Report ==
    /\ call = "scalar_mult" /\ pc = "done"
    /\ pc' = "reported"
    /\ printed' = IF is_at_infinity(ret.val)
                  THEN [infinity |-> TRUE]
                  ELSE [infinity |-> FALSE, x |-> ret.val.x, y |-> ret.val.y,
                        is_on_curve |-> is_on_curve(ret.val, a, b, m)]
    /\ UNCHANGED <<a, b, m, call, inv_a, inv_m, p, q, n0, inv_ret, ret,
                   on_curve, branch, n, result, addend, iters, folds, doublings>>

Next ==
    \/ CallModInv
    \/ CallAdd
    \/ CallIsOnCurve
    \/ CallScalarMult
    \/ LoopStep
    \/ LoopExit
    \/ Report

Spec == Init /\ [][Next]_vars

\* ------------------------------------------------ vocabulary of the claims
RECURSIVE GCD(_, _)
GCD(x, y) == IF y = 0 THEN x ELSE GCD(y, x % y)

IsPrime(k) == k > 1 /\ \A d \in 2..(k - 1) : d * d > k \/ k % d /= 0

IsOddPrime(k) == IsPrime(k) /\ k % 2 = 1

RECURSIVE BitLen(_)
BitLen(k) == IF k = 0 THEN 0 ELSE 1 + BitLen(k \div 2)

RECURSIVE PopCount(_)
PopCount(k) == IF k = 0 THEN 0 ELSE (k % 2) + PopCount(k \div 2)

RECURSIVE Pow2(_)
Pow2(k) == IF k = 0 THEN 1 ELSE 2 * Pow2(k - 1)

\* P added to itself k times by repeated elliptic_add from the identity.
RECURSIVE NaiveMul(_, _, _, _)
NaiveMul(k, pt, ca, cm) ==
    IF k = 0 THEN Ok(at_infinity)
    ELSE LET prev == NaiveMul(k - 1, pt, ca, cm)
         IN  IF prev.panic THEN Panic ELSE elliptic_add(prev.val, pt, ca, cm)

\* Two outcomes are the same: both panic, or both return the same value.
SameOutcome(o1, o2) ==
    /\ o1.panic = o2.panic
    /\ ~o1.panic => o1.val = o2.val

Returned == call = "scalar_mult" /\ pc \in {"done", "reported"}
Finished == call = "scalar_mult" /\ pc \in {"done", "reported", "panic"}

AddCalled == call = "elliptic_add"
InvCalled == call = "mod_inv"
Affine(pt) == ~pt.infinity
Reflect(pt, mm) == Point(pt.x, mm - pt.y)

\* ------------------------------------------------------------------- C1
\* C1 as stated: for every modulus, point and scalar, scalar_mult(n, P, a, m)
\* has the outcome of adding P to itself n times from the identity.
C1_AsStated == Finished => SameOutcome(ret, NaiveMul(n0, p, a, m))

\* C1 (amended): when m is an odd prime, scalar_mult(n, P, a, m) returns, and
\* returns the point obtained by adding P to itself n times with repeated
\* elliptic_add from the identity; for n = 0 that is the identity.
C1_ScalarConsistency ==
    Finished /\ IsOddPrime(m) =>
        /\ ~ret.panic
        /\ SameOutcome(ret, NaiveMul(n0, p, a, m))
        /\ n0 = 0 => ret.val = at_infinity

C1_Witness ==
    /\ Returned /\ m = 7 /\ n0 = 11
    /\ Affine(p) /\ Affine(ret.val)
    /\ ret = NaiveMul(n0, p, a, m)

\* ------------------------------------------------------------------- C2
\* C2: for coprime (a, m) with 0 < a < m, mod_inv(a, m) returns t with
\* (a * t) mod m = 1 and 0 <= t < m.
C2_InverseCorrect ==
    InvCalled /\ 0 < inv_a /\ inv_a < inv_m /\ GCD(inv_a, inv_m) = 1 =>
        /\ ~inv_ret.panic
        /\ (inv_a * inv_ret.val) % inv_m = 1
        /\ 0 <= inv_ret.val /\ inv_ret.val < inv_m

\* The Bezout coefficient came out negative and was normalized.
C2_Witness ==
    /\ InvCalled /\ 0 < inv_a /\ inv_a < inv_m /\ GCD(inv_a, inv_m) = 1
    /\ ModInvLoop(0, 1, inv_m, inv_a).t < 0
    /\ ~inv_ret.panic /\ (inv_a * inv_ret.val) % inv_m = 1

\* ------------------------------------------------------------------- C3
\* C3: mod_inv(a, m) panics, and returns no value, whenever gcd(a, m) > 1.
C3_NonInvertibleDetected ==
    InvCalled /\ GCD(inv_a, inv_m) > 1 => inv_ret = Panic

C3_Witness == InvCalled /\ inv_a = 4 /\ inv_m = 8 /\ inv_ret = Panic

\* ------------------------------------------------------------------- C4
\* C4: if P is on the curve, every point elliptic_add(P, P, a, m) or
\* scalar_mult(n, P, a, m) returns is on the curve with the same a, b, m
\* (the identity counts as on the curve), and main reports it so.
C4_Closure ==
    /\ Returned /\ is_on_curve(p, a, b, m) => is_on_curve(ret.val, a, b, m)
    /\ call = "scalar_mult" /\ pc = "reported" /\ is_on_curve(p, a, b, m)
          /\ ~printed.infinity => printed.is_on_curve
    /\ AddCalled /\ p = q /\ is_on_curve(p, a, b, m) /\ ~ret.panic =>
          is_on_curve(ret.val, a, b, m)

\* main's run: a = 4, b = 4, m = 313, P = (205, 130), n = 2.
C4_Witness ==
    /\ call = "scalar_mult" /\ pc = "reported"
    /\ a = RefA /\ b = RefB /\ m = RefM /\ p = RefP /\ n0 = RefN
    /\ is_on_curve(p, a, b, m)
    /\ ~printed.infinity /\ printed.is_on_curve
    /\ ret = elliptic_add(RefP, RefP, RefA, RefM)

\* ------------------------------------------------------------------- C5
\* C5 as stated: for every affine P = (x, y) with y /= 0,
\* elliptic_add(P, (x, m - y), a, m) returns the identity.
C5_AsStated ==
    AddCalled /\ Affine(p) /\ p.y /= 0 /\ q = Reflect(p, m) =>
        ret = Ok(at_infinity)

\* C5 (amended): for every affine P = (x, y) with y /= 0 and 2y /= m (every
\* such P when m is odd), elliptic_add(P, (x, m - y), a, m) returns the
\* identity; when 2y = m the second operand is P itself and the call panics
\* in the doubling branch.
C5_InverseLaw ==
    AddCalled /\ Affine(p) /\ p.y /= 0 /\ q = Reflect(p, m) =>
        /\ 2 * p.y /= m => ret = Ok(at_infinity) /\ branch = "inverse"
        /\ 2 * p.y = m => ret = Panic /\ branch = "doubling"
        /\ m % 2 = 1 => ret = Ok(at_infinity)

C5_Witness ==
    /\ AddCalled /\ m = RefM /\ p = RefP /\ q = Reflect(RefP, RefM)
    /\ ret = Ok(at_infinity)

\* ------------------------------------------------------------------- C6
\* C6: for P and Q on the curve, elliptic_add(P, Q, a, m) and
\* elliptic_add(Q, P, a, m) have the same outcome.
C6_Commutative ==
    AddCalled /\ is_on_curve(p, a, b, m) /\ is_on_curve(q, a, b, m) =>
        SameOutcome(ret, elliptic_add(q, p, a, m))

C6_Witness ==
    /\ AddCalled /\ branch = "addition" /\ m = 7
    /\ is_on_curve(p, a, b, m) /\ is_on_curve(q, a, b, m)
    /\ ~ret.panic /\ Affine(ret.val)
    /\ p.y /= q.y

\* ------------------------------------------------------------------- C7
\* C7: for every affine P with y = 0, elliptic_add(P, P, a, m) returns the
\* identity from the third test, before any slope is computed; it does not
\* panic.
C7_DoublingToIdentity ==
    AddCalled /\ Affine(p) /\ p.y = 0 /\ q = p =>
        ret = Ok(at_infinity) /\ branch = "inverse"

C7_Witness ==
    /\ AddCalled /\ m = RefM /\ p = Point(RefX, 0) /\ q = p
    /\ ret = Ok(at_infinity)

\* ------------------------------------------------------------------- C8
\* C8: elliptic_add(P, infinity, a, m) = P and elliptic_add(infinity, P, a, m)
\* = P for every P, returned from the first two tests, before any slope or
\* inverse is computed.
C8_IdentityLaw ==
    /\ AddCalled /\ is_at_infinity(q) =>
          ret = Ok(p) /\ branch \in {"p_infinity", "q_infinity"}
    /\ AddCalled /\ is_at_infinity(p) =>
          ret = Ok(q) /\ branch = "p_infinity"

C8_Witness ==
    /\ AddCalled /\ is_at_infinity(p) /\ Affine(q) /\ q.y /= 0
    /\ ret = Ok(q)

\* ------------------------------------------------------------------- C9
\* C9 as stated: a panic comes only from the addition slope; the identity
\* returns, doubling (any affine P with coordinates in [0, m), m > 0) and
\* is_on_curve never fail.
C9_AsStated ==
    /\ AddCalled /\ ret.panic => branch = "addition"
    /\ AddCalled /\ p = q => ~ret.panic
    /\ call = "is_on_curve" => on_curve \in BOOLEAN

\* C9 (amended): a panic comes only from a slope whose denominator is not a
\* unit mod m: doubling fails exactly when gcd(2y, m) > 1 (y /= 0), addition
\* exactly when gcd(x2 - x1, m) > 1; so doubling never fails when m is an
\* odd prime, but does for other m (m = 2, y = 1).  The identity returns, the
\* inverse return and is_on_curve never fail.
C9_FailuresOnlyFromSlope ==
    /\ AddCalled /\ branch \in {"p_infinity", "q_infinity", "inverse"} =>
          ~ret.panic
    /\ AddCalled /\ branch = "doubling" =>
          (ret.panic <=> GCD(2 * p.y, m) > 1)
    /\ AddCalled /\ branch = "addition" =>
          (ret.panic <=> GCD((q.x - p.x) % m, m) > 1)
    /\ AddCalled /\ p = q /\ IsOddPrime(m) => ~ret.panic
    /\ call = "is_on_curve" => on_curve \in BOOLEAN

C9_Witness ==
    /\ AddCalled /\ branch = "doubling" /\ p = q /\ IsOddPrime(m)
    /\ ~ret.panic /\ Affine(ret.val)

\* ------------------------------------------------------------------ C10
\* The loop consumes the bits of n from the least significant: after k
\* iterations n holds n0 shifted right k times, the addend was doubled k
\* times and result was folded once per 1-bit among the k low bits; the
\* function returns exactly when n has reached zero, after bit-length(n0)
\* iterations.
LoopProgress ==
    call = "scalar_mult" =>
        /\ n >= 0
        /\ iters <= BitLen(n0)
        /\ n = n0 \div Pow2(iters)
        /\ pc /= "panic" =>
              doublings = iters /\ folds = PopCount(n0 % Pow2(iters))
        /\ Returned =>
              n = 0 /\ iters = BitLen(n0) /\ folds = PopCount(n0)
                    /\ doublings = BitLen(n0)

\* Every step out of the loop head is one iteration that halves n (the
\* variant n strictly decreases and stays >= 0), doubles the addend once and
\* folds once iff the low bit is set, or it is the return at n = 0, or a
\* panic.
LoopVariant ==
    call = "scalar_mult" /\ pc = "loop" =>
        \/ /\ pc' = "loop" /\ n > 0
           /\ n' = n \div 2 /\ n' < n /\ n' >= 0
           /\ iters' = iters + 1
           /\ doublings' = doublings + 1
           /\ folds' = folds + (n % 2)
        \/ pc' = "done" /\ n = 0 /\ n' = 0 /\ ret' = Ok(result)
        \/ pc' = "panic" /\ n > 0 /\ ret' = Panic

\* C10: scalar_mult's loop runs at most bit-length(n) iterations, each
\* shifting n right by one, doubling the addend once and folding the addend
\* into result once per 1-bit, least significant bit first; it returns when
\* n reaches zero, after exactly bit-length(n) iterations.
C10_Termination == []LoopProgress /\ [][LoopVariant]_vars

C10_Witness ==
    /\ Returned /\ n0 = 11
    /\ iters = 4 /\ doublings = 4 /\ folds = 3 /\ n = 0

====
